---------------------------- MODULE Spec2Model ----------------------------
(***************************************************************************)
(* wanonpcap: the pcap anonymizer.  The model covers the anonymizer        *)
(* (DefaultAnonymizer.MAC / IPv4 / IPv6), the two frame handlers           *)
(* (EthHandler.Handle, Radiotap80211Handler.Handle), the container codec   *)
(* (Magic, GlobalHeader, PacketHeader) and the pipeline (run, main).       *)
(*                                                                         *)
(* Bytes are integers 0..255.  A Go slice b[i:j] is SubSeq(b, i+1, j).     *)
(* A uint16/uint32 that was decoded from the stream is kept as the tuple   *)
(* of its bytes, most significant first, so that 32-bit values never       *)
(* leave the range of TLC's integers.                                    *)
(***************************************************************************)
EXTENDS Integers, Sequences, FiniteSets, TLC

VARIABLES
    stdin,      \* os.Stdin: the whole input stream, as bytes
    rpos,       \* number of bytes of stdin consumed by the bufio.Reader
    stdout,     \* os.Stdout: the bytes written (and flushed) so far
    pc,         \* position of run/main
    order,      \* byte order detected from the magic
    linkLayer,  \* gh.LinkLayer, the key into Handlers
    ph,         \* the PacketHeader of the record being processed
    b,          \* the packet buffer of the record being processed
    raw,        \* history: the packet buffer as it was read from stdin
    n,          \* the boundary returned by Handle
    err,        \* the error run returned (or the panic that ended it)
    packets,    \* run's packets counter
    at,         \* history: the step of run that returned, "" before
    exit,       \* the process's exit status, -1 while running
    pass,       \* 1: the first run; 2: a second run over the first's output
    truncate,   \* run's truncate argument (the negated -no-truncate flag)
    anon,       \* the DefaultAnonymizer
    log,        \* history: every address field handed to the anonymizer
    first       \* history: how the first run ended, once it is run again

vars == <<stdin, rpos, stdout, pc, order, linkLayer, ph, b, raw, n, err,
          packets, at, exit, pass, truncate, anon, log, first>>

----------------------------------------------------------------------------
(* Bounds of the model.                                                    *)

\* the longest capture the pipeline specification reads, in records
MaxRecords == 2
\* the longest sequence of direct anonymizer calls
MaxCalls == 3

----------------------------------------------------------------------------
(* Bytes.                                                                  *)

RECURSIVE XorBits(_, _, _)
XorBits(x, y, k) ==
    IF k = 0 THEN 0
    ELSE (((x % 2) + (y % 2)) % 2) + (2 * XorBits(x \div 2, y \div 2, k - 1))

\* x ^ y on two bytes
Xor8(x, y) == XorBits(x, y, 8)

\* the 16-bit value of two bytes, most significant first
U16(hi, lo) == (hi * 256) + lo

\* copy(dst[off:], data): data laid over dst from offset off, cut at len(dst)
Splice(dst, off, data) ==
    [i \in 1..Len(dst) |->
        IF i > off /\ i <= off + Len(data) THEN data[i - off] ELSE dst[i]]

\* the Go slice b[lo:hi]
Slice(s, lo, hi) == SubSeq(s, lo + 1, hi)

\* error values: kind, and for a short-packet error the bytes needed and
\* the position
Err(kind, x, pos) == [kind |-> kind, x |-> x, pos |-> pos]
NilErr == Err("nil", 0, 0)

----------------------------------------------------------------------------
(* src/unnamed/part_000                                                    *)

isAllZeroes_Inverted(s) == \E i \in 1..Len(s) : s[i] # 0

isAllZeroes(s) == \A i \in 1..Len(s) : s[i] = 0

toArray3(s) == [i \in 1..3 |-> IF i <= Len(s) THEN s[i] ELSE 0]
toArray4(s) == [i \in 1..4 |-> IF i <= Len(s) THEN s[i] ELSE 0]
toArray16(s) == [i \in 1..16 |-> IF i <= Len(s) THEN s[i] ELSE 0]

\* toSliceN(b, a): the array written over the slice
toSlice3(s, a) == [i \in 1..Len(s) |-> IF i <= 3 THEN a[i] ELSE s[i]]
toSlice4(s, a) == [i \in 1..Len(s) |-> IF i <= 4 THEN a[i] ELSE s[i]]
toSlice16(s, a) == [i \in 1..Len(s) |-> IF i <= 16 THEN a[i] ELSE s[i]]

\* toArrayN / toSliceN by the width of the class
toArray(w, s) ==
    CASE w = 3 -> toArray3(s) [] w = 4 -> toArray4(s) [] w = 16 -> toArray16(s)
toSlice(w, s, a) ==
    CASE w = 3 -> toSlice3(s, a) [] w = 4 -> toSlice4(s, a)
      [] w = 16 -> toSlice16(s, a)

----------------------------------------------------------------------------
(* The anonymizer (src/eth.go, DefaultAnonymizer).                         *)

Encrypt == "encrypt"
Pseudonym == "pseudonym"
Leave == "leave"
AnonMethod == {Encrypt, Pseudonym, Leave}

\* The keys of the model.  The stream cipher is AES-CTR under
\* sha256(key string) and the fixed iv: the keystream is a function of the
\* key and the position alone.
Keys == {1, 2}

\* byte i (from 0) of the keystream of a key
KeyStreamByte(key, i) == ((90 * key) + (7 * i)) % 256

\* the keystream bytes i .. i+k-1
KeyStream(key, i, k) == [j \in 1..k |-> KeyStreamByte(key, i + j - 1)]

EmptyMap == [x \in {} |-> <<>>]

NewDefaultAnonymizer(macOUI, macNIC, ipv4, ipv6, key) ==
    [macOUI |-> macOUI, macNIC |-> macNIC, ipv4 |-> ipv4, ipv6 |-> ipv6,
     key |-> key, kpos |-> 0,
     ouiMap |-> EmptyMap, nicMap |-> EmptyMap,
     ipv4Map |-> EmptyMap, ipv6Map |-> EmptyMap,
     nmac |-> 0, nipv4 |-> 0, nipv6 |-> 0]

XORKeyStream_NoXor(key, kpos, src) == KeyStream(key, kpos, Len(src))

\* scipher.XORKeyStream(dst, src), with the cipher's cursor at kpos
XORKeyStream(key, kpos, src) ==
    [i \in 1..Len(src) |-> Xor8(src[i], KeyStreamByte(key, kpos + i - 1))]

\* A field of the log: where it was (off, from the start of the buffer the
\* handler got), its class, its bytes before and after, and the cursor of
\* the cipher when it was XORed (-1 when it was not).
Field(off, class, orig, out, kat) ==
    [off |-> off, class |-> class, orig |-> orig, out |-> out, kat |-> kat]

Lookup_Forgetful(m, k) == [ok |-> FALSE, pa |-> k]

\* pa, ok := m[k]
Lookup(m, k) ==
    IF k \in DOMAIN m THEN [ok |-> TRUE, pa |-> m[k]]
    ELSE [ok |-> FALSE, pa |-> k]

\* m[k] = v
Store(m, k, v) == [x \in (DOMAIN m) \cup {k} |-> IF x = k THEN v ELSE m[x]]

\* One switch of MAC / IPv4 / IPv6 over the method of a class: the bytes
\* that result, the map and the cursor afterwards.
Transform(method, key, kpos, m, w, s) ==
    IF method = Encrypt THEN
        [s |-> XORKeyStream(key, kpos, s), m |-> m,
         kpos |-> kpos + Len(s), kat |-> kpos]
    ELSE IF method = Pseudonym THEN
        LET ba == toArray(w, s)
            l  == Lookup(m, ba) IN
        IF l.ok THEN [s |-> toSlice(w, s, l.pa), m |-> m, kpos |-> kpos,
                      kat |-> -1]
        ELSE LET x == XORKeyStream(key, kpos, s) IN
             [s |-> x, m |-> Store(m, ba, toArray(w, x)),
              kpos |-> kpos + Len(s), kat |-> kpos]
    ELSE [s |-> s, m |-> m, kpos |-> kpos, kat |-> -1]

\* the end of a.MAC(s), o and c being what the two switches gave
MacResult(a, s, o, c) ==
    [a |-> [a EXCEPT !.ouiMap = o.m, !.nicMap = c.m, !.kpos = c.kpos,
                     !.nmac = @ + 1],
     s |-> o.s \o c.s,
     fs |-> << Field(0, "oui", Slice(s, 0, 3), o.s, o.kat),
               Field(3, "nic", Slice(s, 3, Len(s)), c.s, c.kat) >>]

\* the second switch of a.MAC(s), over a.macNIC, on b[3:]
MacNIC(a, s, o) ==
    MacResult(a, s, o,
        Transform(a.macNIC, a.key, o.kpos, a.nicMap, 3, Slice(s, 3, Len(s))))

\* a.MAC(s): the anonymizer and the six bytes afterwards, and the two
\* fields (OUI, NIC) it handled.  The first switch, over a.macOUI, is on
\* b[:3].
MAC(a, s) ==
    MacNIC(a, s, Transform(a.macOUI, a.key, a.kpos, a.ouiMap, 3, Slice(s, 0, 3)))

\* a.IPv4(s)
IPv4(a, s) ==
    LET t == Transform(a.ipv4, a.key, a.kpos, a.ipv4Map, 4, s)
    IN  [a |-> [a EXCEPT !.ipv4Map = t.m, !.kpos = t.kpos, !.nipv4 = @ + 1],
         s |-> t.s,
         fs |-> << Field(0, "ipv4", s, t.s, t.kat) >>]

\* a.IPv6(s)
IPv6(a, s) ==
    LET t == Transform(a.ipv6, a.key, a.kpos, a.ipv6Map, 16, s)
    IN  [a |-> [a EXCEPT !.ipv6Map = t.m, !.kpos = t.kpos, !.nipv6 = @ + 1],
         s |-> t.s,
         fs |-> << Field(0, "ipv6", s, t.s, t.kat) >>]

\* the fields fs of a call on b[off:...], as fields of b
At(off, fs) == [i \in 1..Len(fs) |-> [fs[i] EXCEPT !.off = @ + off]]

\* the configured method of a class
MethodOf(a, class) ==
    CASE class = "oui"  -> a.macOUI
      [] class = "nic"  -> a.macNIC
      [] class = "ipv4" -> a.ipv4
      [] class = "ipv6" -> a.ipv6

----------------------------------------------------------------------------
(* Reading from a buffer or a stream.                                      *)

\* io.ReadFull of k bytes from s at offset pos (binary.Read ends in it):
\* io.EOF when nothing is left, io.ErrUnexpectedEOF when too little is
ReadFull(s, pos, k) ==
    IF Len(s) - pos >= k THEN [err |-> NilErr, data |-> Slice(s, pos, pos + k)]
    ELSE IF Len(s) - pos <= 0 THEN [err |-> Err("EOF", 0, 0), data |-> <<>>]
    ELSE [err |-> Err("ErrUnexpectedEOF", 0, 0), data |-> <<>>]

\* the handlers' slurp(x, inc), less the increment: the error it returns
slurp(s, pos, x) ==
    IF pos + x > Len(s) THEN Err("short", x, pos) ELSE NilErr

\* The state of a handler: the buffer, the boundary n, the error, the
\* anonymizer, and (history) the fields it anonymized.
Handled(buf, pos, e, a, fs) ==
    [b |-> buf, n |-> pos, err |-> e, a |-> a, fs |-> fs]

\* "if err = slurp(x, false); err != nil { return }"
Need(st, x) ==
    IF st.err # NilErr THEN st
    ELSE [st EXCEPT !.err = slurp(st.b, st.n, x)]

\* n += x
Advance(st, x) == IF st.err # NilErr THEN st ELSE [st EXCEPT !.n = @ + x]

\* "if cond { if err = slurp(x, true); err != nil { return } }"
Skip(st, cond, x) ==
    IF st.err # NilErr \/ ~cond THEN st ELSE Advance(Need(st, x), x)

\* the buffer, the anonymizer and the history after a call r of the
\* anonymizer on b[off:...]
Put(st, off, r) ==
    [st EXCEPT !.b = Splice(@, off, r.s), !.a = r.a, !.fs = @ \o At(off, r.fs)]

\* anon.MAC(b[n+rel : n+rel+6])
AnonMAC(st, rel) ==
    IF st.err # NilErr THEN st
    ELSE Put(st, st.n + rel, MAC(st.a, Slice(st.b, st.n + rel, st.n + rel + 6)))

\* anon.IPv4(b[n+rel : n+rel+4])
AnonIPv4(st, rel) ==
    IF st.err # NilErr THEN st
    ELSE Put(st, st.n + rel, IPv4(st.a, Slice(st.b, st.n + rel, st.n + rel + 4)))

\* anon.IPv6(b[n+rel : n+rel+16])
AnonIPv6(st, rel) ==
    IF st.err # NilErr THEN st
    ELSE Put(st, st.n + rel, IPv6(st.a, Slice(st.b, st.n + rel, st.n + rel + 16)))

----------------------------------------------------------------------------
(* The Ethernet handler (src/eth.go).                                      *)

ipv4EtherType == 2048
ipv6EtherType == 34525
vlanEtherType == 33024
arpEtherType == 2054

NoEthHeader ==
    [DestMAC |-> <<0, 0, 0, 0, 0, 0>>, SrcMAC |-> <<0, 0, 0, 0, 0, 0>>,
     EtherType |-> 0, VLAN |-> FALSE, TCI |-> <<0, 0>>]

\* EthHeader.Read
EthHeaderRead(s) ==
    LET d == ReadFull(s, 0, 6)
        c == ReadFull(s, 6, 6)
        t == ReadFull(s, 12, 2)
        i == ReadFull(s, 14, 2)
        u == ReadFull(s, 16, 2)
    IN  IF d.err # NilErr THEN [err |-> d.err, eh |-> NoEthHeader]
        ELSE IF c.err # NilErr THEN [err |-> c.err, eh |-> NoEthHeader]
        ELSE IF t.err # NilErr THEN [err |-> t.err, eh |-> NoEthHeader]
        ELSE IF U16(t.data[1], t.data[2]) # vlanEtherType THEN
            [err |-> NilErr,
             eh |-> [DestMAC |-> d.data, SrcMAC |-> c.data,
                     EtherType |-> U16(t.data[1], t.data[2]),
                     VLAN |-> FALSE, TCI |-> <<0, 0>>]]
        ELSE IF i.err # NilErr THEN [err |-> i.err, eh |-> NoEthHeader]
        ELSE IF u.err # NilErr THEN [err |-> u.err, eh |-> NoEthHeader]
        ELSE [err |-> NilErr,
              eh |-> [DestMAC |-> d.data, SrcMAC |-> c.data,
                      EtherType |-> U16(u.data[1], u.data[2]),
                      VLAN |-> TRUE, TCI |-> i.data]]

\* EthHeader.Write: the bytes written and the count it returns.  For a
\* tagged header it writes the TCI (2 bytes) and counts 4.
EthHeaderWrite(eh) ==
    [w |-> eh.DestMAC \o eh.SrcMAC
           \o (IF eh.VLAN THEN eh.TCI ELSE <<>>)
           \o << eh.EtherType \div 256, eh.EtherType % 256 >>,
     n |-> 6 + 6 + (IF eh.VLAN THEN 4 ELSE 0) + 2]

\* Handle: "n, err = eh.Write(w)" and "copy(b, w.Bytes())"
EthCopy(s, wr, a, fs) == Handled(Splice(s, 0, wr.w), wr.n, NilErr, a, fs)

\* Handle: anon.MAC(eh.SrcMAC[:]), d being the call on eh.DestMAC
EthAnonSrc(s, eh, d, c) ==
    EthCopy(s, EthHeaderWrite([eh EXCEPT !.DestMAC = d.s, !.SrcMAC = c.s]),
            c.a, At(0, d.fs) \o At(6, c.fs))

\* Handle: anon.MAC(eh.DestMAC[:])
EthAnonDest(s, eh, d) == EthAnonSrc(s, eh, d, MAC(d.a, eh.SrcMAC))

\* Handle, case arpEtherType: the MAC of one round of the loop
ArpMAC(st) ==
    IF st.err # NilErr THEN st
    ELSE IF isAllZeroes(Slice(st.b, st.n, st.n + 6)) THEN st
    ELSE AnonMAC(st, 0)

\* Handle, case arpEtherType: one round of the loop
ArpPair(st) ==
    Advance(AnonIPv4(Need(Advance(ArpMAC(Need(st, 6)), 6), 4), 0), 4)

\* the header-length nibble as Handle takes it: int(b[0] & 0xf)
Ihl(buf) == buf[1] % 16

\* Handle, case ipv4EtherType: "if ihl > 5 { slurp((ihl-5)*4, true) }"
IhlSkip(st) ==
    IF st.err # NilErr THEN st
    ELSE Skip(st, Ihl(st.b) > 5, (Ihl(st.b) - 5) * 4)

\* Handle: the switch over eh.EtherType
EthSwitch(st, et) ==
    IF et = arpEtherType THEN ArpPair(ArpPair(Skip(st, TRUE, 8)))
    ELSE IF et = ipv4EtherType
    THEN IhlSkip(Advance(AnonIPv4(AnonIPv4(Need(st, 20), 12), 16), 20))
    ELSE IF et = ipv6EtherType
    THEN Advance(AnonIPv6(AnonIPv6(Need(st, 40), 8), 24), 40)
    ELSE st

\* Handle, after eh.Read
EthAfterRead(s, a, rd) ==
    IF rd.err # NilErr THEN Handled(s, 0, rd.err, a, <<>>)
    ELSE EthSwitch(EthAnonDest(s, rd.eh, MAC(a, rd.eh.DestMAC)), rd.eh.EtherType)

\* EthHandler.Handle
EthHandle(s, a) == EthAfterRead(s, a, EthHeaderRead(s))

----------------------------------------------------------------------------
(* The radiotap + 802.11 handler (src/radiotap_80211.go).                  *)

typeMgmt == 0
typeControl == 1
typeData == 2
typeReserved == 3

cfWrapper == 7
cfBlockAckReq == 8
cfBlockAck == 9
cfPSPoll == 10
cfRTS == 11
cfCTS == 12
cfACK == 13
cfEnd == 14
cfEndAck == 15

\* map of control frame subtypes to number of MACs
cfMACs ==
    [x \in 7..15 |->
        CASE x = cfWrapper     -> 1
          [] x = cfBlockAckReq -> 2
          [] x = cfBlockAck    -> 2
          [] x = cfPSPoll      -> 1
          [] x = cfRTS         -> 2
          [] x = cfCTS         -> 1
          [] x = cfACK         -> 1
          [] x = cfEnd         -> 1
          [] x = cfEndAck      -> 2]

qosMask == 8

\* parseFC: fc & 0x3, (fc >> 2) & 0x3, (fc >> 4) & 0xF
parseFC(fc) ==
    [ver |-> fc % 4, typ |-> (fc \div 4) % 4, styp |-> (fc \div 16) % 16]

\* parseFlags: bits 0x01, 0x02 and 0x80
parseFlags(flags) ==
    [tods |-> flags % 2 = 1, fromds |-> (flags \div 2) % 2 = 1,
     order |-> (flags \div 128) % 2 = 1]

\* RadiotapHeader.Read: Version, Pad, Len (uint16) and Present (uint32),
\* little endian
RadiotapHeaderRead(s) ==
    LET r == ReadFull(s, 0, 8)
    IN  IF r.err # NilErr THEN [err |-> r.err, Len |-> 0]
        ELSE [err |-> NilErr, Len |-> U16(r.data[4], r.data[3])]

NMacs_ControlOne(typ, styp) == IF typ = typeControl THEN 1 ELSE 3

\* Handle: the switch over typ that sets nmacs
NMacs(typ, styp) == IF typ = typeControl THEN cfMACs[styp] ELSE 3

\* Handle: one round of "for i := 0; i < nmacs; i++"
OneMac(st) == Advance(AnonMAC(Need(st, 6), 0), 6)

\* Handle: the loop over the first nmacs addresses
RECURSIVE Macs(_, _)
Macs(st, k) == IF k = 0 THEN st ELSE Macs(OneMac(st), k - 1)

\* Handle: the fourth mac, for tods && fromds
FourthMac(st, cond) == IF cond THEN OneMac(st) ELSE st

\* Handle: qosDataFrame
IsQosDataFrame(typ, styp) == typ = typeData /\ (styp \div qosMask) % 2 = 1

\* Handle: the condition of the ht control
HasHTControl(typ, styp, ordr) ==
    \/ (typ = typeControl /\ styp = cfWrapper)
    \/ (IsQosDataFrame(typ, styp) /\ ordr)
    \/ (typ = typeMgmt /\ ordr)

\* Handle, from the macs on
RadioFields(st, typ, styp, fl) ==
    Skip(Skip(Skip(FourthMac(Skip(Macs(st, NMacs(typ, styp)),
                                  typ # typeControl, 2),
                             typ = typeData /\ fl.tods /\ fl.fromds),
                   IsQosDataFrame(typ, styp), 2),
              typ = typeControl /\ styp = cfWrapper, 2),
         HasHTControl(typ, styp, fl.order), 4)

\* Handle, after the duration: the panics of the switch over typ
RadioSwitch(st, typ, styp, fl) ==
    IF st.err # NilErr THEN st
    ELSE IF typ = typeControl /\ styp \notin DOMAIN cfMACs
    THEN [st EXCEPT !.err = Err("panic_subtype", styp, st.n)]
    ELSE IF typ \notin {typeMgmt, typeControl, typeData}
    THEN [st EXCEPT !.err = Err("panic_reserved", typ, st.n)]
    ELSE RadioFields(st, typ, styp, fl)

\* Handle: frame control and flags (r1 and r2 being the two reads), and
\* the duration
RadioControl(s, a, n0, r1, r2) ==
    IF r1.err # NilErr THEN Handled(s, n0, r1.err, a, <<>>)
    ELSE IF r2.err # NilErr THEN Handled(s, n0 + 1, r2.err, a, <<>>)
    ELSE RadioSwitch(Skip(Handled(s, n0 + 2, NilErr, a, <<>>), TRUE, 2),
                     parseFC(r1.data[1]).typ, parseFC(r1.data[1]).styp,
                     parseFlags(r2.data[1]))

\* Handle, after rh.Read: b[n:] panics when n is beyond the buffer
RadioAfterRead(s, a, rh) ==
    IF rh.err # NilErr THEN Handled(s, 0, rh.err, a, <<>>)
    ELSE IF rh.Len > Len(s)
    THEN Handled(s, rh.Len, Err("panic_slice", 0, rh.Len), a, <<>>)
    ELSE RadioControl(s, a, rh.Len, ReadFull(s, rh.Len, 1),
                      ReadFull(s, rh.Len + 1, 1))

\* Radiotap80211Handler.Handle
Radiotap80211Handle(s, a) == RadioAfterRead(s, a, RadiotapHeaderRead(s))

\* Handlers: the packet handlers, by pcap link type
HandlerTypes == {1, 127}

\* Handlers[linkLayer].Handle(b, anon)
Handle(link, s, a) ==
    IF link = 1 THEN EthHandle(s, a) ELSE Radiotap80211Handle(s, a)

----------------------------------------------------------------------------
(* The container codec (src/eth.go: Magic, GlobalHeader, PacketHeader).    *)

BigEndian == "BigEndian"
LittleEndian == "LittleEndian"

Reverse(s) == [i \in 1..Len(s) |-> s[Len(s) + 1 - i]]

\* order.UintNN(bytes): the value, as its bytes, most significant first
Decode(ord, bytes) == IF ord = LittleEndian THEN Reverse(bytes) ELSE bytes

\* order.PutUintNN(value): the bytes of the stream
Encode(ord, val) == IF ord = LittleEndian THEN Reverse(val) ELSE val

\* 0xd4c3b2a1 and 0xa1b2c3d4
MagicLE == <<212, 195, 178, 161>>
MagicBE == <<161, 178, 195, 212>>

\* Magic.Read
MagicRead(s, pos) ==
    LET r == ReadFull(s, pos, 4)
        m == Decode(BigEndian, r.data)
    IN  IF r.err # NilErr THEN [err |-> r.err, m |-> <<0, 0, 0, 0>>]
        ELSE IF m # MagicLE /\ m # MagicBE
        THEN [err |-> Err("bad magic", 0, 0), m |-> m]
        ELSE [err |-> NilErr, m |-> m]

\* Magic.ByteOrder, for a magic Magic.Read accepted
MagicByteOrder(m) == IF m = MagicLE THEN LittleEndian ELSE BigEndian

\* Magic.Write: MagicBE, in the byte order of the magic read
MagicWrite(m) == Encode(MagicByteOrder(m), MagicBE)

\* GlobalHeader.Read, from its 20 bytes
GlobalHeaderRead(d, ord) ==
    [VersionMajor |-> Decode(ord, Slice(d, 0, 2)),
     VersionMinor |-> Decode(ord, Slice(d, 2, 4)),
     ThisZone     |-> Decode(ord, Slice(d, 4, 8)),
     Sigfigs      |-> Decode(ord, Slice(d, 8, 12)),
     Snaplen      |-> Decode(ord, Slice(d, 12, 16)),
     LinkLayer    |-> Decode(ord, Slice(d, 16, 20))]

\* GlobalHeader.Write
GlobalHeaderWrite(gh, ord) ==
    Encode(ord, gh.VersionMajor) \o Encode(ord, gh.VersionMinor)
    \o Encode(ord, gh.ThisZone) \o Encode(ord, gh.Sigfigs)
    \o Encode(ord, gh.Snaplen) \o Encode(ord, gh.LinkLayer)

\* binary.Read(r, order, &ph), from its 16 bytes
PacketHeaderRead(d, ord) ==
    [TimestampSec  |-> Decode(ord, Slice(d, 0, 4)),
     TimestampUsec |-> Decode(ord, Slice(d, 4, 8)),
     Len           |-> Decode(ord, Slice(d, 8, 12)),
     OrigLen       |-> Decode(ord, Slice(d, 12, 16))]

\* binary.Write(w, order, &ph)
PacketHeaderWrite(h, ord) ==
    Encode(ord, h.TimestampSec) \o Encode(ord, h.TimestampUsec)
    \o Encode(ord, h.Len) \o Encode(ord, h.OrigLen)

NoPacketHeader ==
    [TimestampSec |-> <<0, 0, 0, 0>>, TimestampUsec |-> <<0, 0, 0, 0>>,
     Len |-> <<0, 0, 0, 0>>, OrigLen |-> <<0, 0, 0, 0>>]

\* MaxPacketLen: 256 * 1024
MaxPacketLen == 262144

\* a uint32 below 2^24 as a number
Num24(v) == (v[2] * 65536) + (v[3] * 256) + v[4]

\* uint32(k), for 0 <= k < 2^24
U32(k) == << 0, (k \div 65536) % 256, (k \div 256) % 256, k % 256 >>

ExceedsMax_Never(v) == FALSE

\* ph.Len > MaxPacketLen
ExceedsMax(v) == v[1] # 0 \/ Num24(v) > MaxPacketLen

\* Handlers[gh.LinkLayer]: the link type, 0 when there is no handler
HandlerOf(v) ==
    IF v[1] = 0 /\ v[2] = 0 /\ v[3] = 0 /\ v[4] \in HandlerTypes THEN v[4] ELSE 0

----------------------------------------------------------------------------
(* The pipeline (src/eth.go: run, main).                                   *)

\* the return of run: the deferred Flush has run, main decides the status
Return(e) ==
    /\ err' = e
    /\ at' = pc
    /\ pc' = "return"

\* run: magic.Read, magic.Write, magic.ByteOrder
ReadMagic ==
    /\ pc = "magic"
    /\ LET rd == MagicRead(stdin, rpos) IN
       IF rd.err # NilErr
       THEN /\ Return(rd.err)
            /\ rpos' = IF rd.err.kind = "bad magic" THEN rpos + 4 ELSE Len(stdin)
            /\ UNCHANGED <<stdout, order>>
       ELSE /\ rpos' = rpos + 4
            /\ stdout' = stdout \o MagicWrite(rd.m)
            /\ order' = MagicByteOrder(rd.m)
            /\ pc' = "global"
            /\ UNCHANGED <<err, at>>
    /\ UNCHANGED <<stdin, linkLayer, ph, b, raw, n, packets, exit, pass,
                   truncate, anon, log, first>>

\* run: gh.Read, the handler's lookup, gh.Write
ReadGlobalHeader ==
    /\ pc = "global"
    /\ LET rd == ReadFull(stdin, rpos, 20)
           gh == GlobalHeaderRead(rd.data, order) IN
       IF rd.err # NilErr
       THEN /\ Return(rd.err)
            /\ rpos' = Len(stdin)
            /\ UNCHANGED <<stdout, linkLayer>>
       ELSE /\ rpos' = rpos + 20
            /\ linkLayer' = HandlerOf(gh.LinkLayer)
            /\ IF HandlerOf(gh.LinkLayer) = 0
               THEN /\ Return(Err("unsupported link layer", 0, 0))
                    /\ stdout' = stdout
               ELSE /\ stdout' = stdout \o GlobalHeaderWrite(gh, order)
                    /\ pc' = "header"
                    /\ UNCHANGED <<err, at>>
    /\ UNCHANGED <<stdin, order, ph, b, raw, n, packets, exit, pass,
                   truncate, anon, log, first>>

\* run: read packet header, and the check against MaxPacketLen
ReadPacketHeader ==
    /\ pc = "header"
    /\ LET rd == ReadFull(stdin, rpos, 16)
           h  == PacketHeaderRead(rd.data, order) IN
       IF rd.err # NilErr
       THEN /\ Return(rd.err)
            /\ rpos' = Len(stdin)
            /\ ph' = ph
       ELSE /\ rpos' = rpos + 16
            /\ ph' = h
            /\ IF ExceedsMax(h.Len)
               THEN Return(Err("max packet len exceeded", 0, 0))
               ELSE /\ pc' = "packet"
                    /\ UNCHANGED <<err, at>>
    /\ UNCHANGED <<stdin, stdout, order, linkLayer, b, raw, n, packets, exit,
                   pass, truncate, anon, log, first>>

\* run: read packet (make and io.ReadFull)
ReadPacket ==
    /\ pc = "packet"
    /\ LET rd == ReadFull(stdin, rpos, Num24(ph.Len)) IN
       IF rd.err # NilErr
       THEN /\ Return(rd.err)
            /\ rpos' = Len(stdin)
            /\ b' = <<>>      \* the buffer is dropped with the return
            /\ raw' = raw
       ELSE /\ rpos' = rpos + Num24(ph.Len)
            /\ b' = rd.data
            /\ raw' = rd.data
            /\ pc' = "handle"
            /\ UNCHANGED <<err, at>>
    /\ UNCHANGED <<stdin, stdout, order, linkLayer, ph, n, packets, exit, pass,
                   truncate, anon, log, first>>

\* the fields of one Handle, as entries of the log
Logged(p, rec, fs) ==
    {[pass |-> p, rec |-> rec, off |-> fs[i].off, class |-> fs[i].class,
      orig |-> fs[i].orig, out |-> fs[i].out, kat |-> fs[i].kat] :
        i \in 1..Len(fs)}

\* run: anonymize packet (h.Handle)
HandlePacket ==
    /\ pc = "handle"
    /\ LET h == Handle(linkLayer, b, anon) IN
       /\ b' = h.b
       /\ n' = h.n
       /\ anon' = h.a
       /\ log' = log \cup Logged(pass, packets, h.fs)
       /\ IF h.err # NilErr
          THEN Return(h.err)
          ELSE /\ pc' = "write"
               /\ UNCHANGED <<err, at>>
    /\ UNCHANGED <<stdin, rpos, stdout, order, linkLayer, ph, raw, packets,
                   exit, pass, truncate, first>>

TruncatedLen_Stale(h, trunc, k) == h.Len

\* ph.Len after "if truncate { ...; ph.Len = uint32(n) }"
TruncatedLen(h, trunc, k) == IF trunc THEN U32(k) ELSE h.Len

\* b after "if truncate { b = b[:n]; ... }"
Truncated(buf, trunc, k) == IF trunc THEN Slice(buf, 0, k) ELSE buf

\* run: the truncation, write header and packet, packets++
WritePacket ==
    /\ pc = "write"
    /\ b' = Truncated(b, truncate, n)
    /\ ph' = [ph EXCEPT !.Len = TruncatedLen(ph, truncate, n)]
    /\ stdout' = stdout \o PacketHeaderWrite(ph', order) \o b'
    /\ packets' = packets + 1
    /\ pc' = "header"
    /\ UNCHANGED <<stdin, rpos, order, linkLayer, raw, n, err, at, exit, pass,
                   truncate, anon, log, first>>

IsPanic(e) == e.kind \in {"panic_slice", "panic_subtype", "panic_reserved"}

\* the status main exits with after run returned err; a panic ends the
\* process with status 2
ExitStatus(e) ==
    IF IsPanic(e) THEN 2
    ELSE IF e # NilErr /\ e.kind # "EOF" THEN 1
    ELSE 0

\* main, after run
Exit ==
    /\ pc = "return"
    /\ exit' = ExitStatus(err)
    /\ pc' = "exited"
    /\ UNCHANGED <<stdin, rpos, stdout, order, linkLayer, ph, b, raw, n, err,
                   packets, at, pass, truncate, anon, log, first>>

\* The program is run again, on the output of a first run that succeeded,
\* with the same key and the same settings.
Rerun ==
    /\ pc = "exited"
    /\ pass = 1
    /\ exit = 0
    /\ pass' = 2
    /\ stdin' = stdout
    /\ rpos' = 0
    /\ stdout' = <<>>
    /\ pc' = "magic"
    /\ order' = BigEndian
    /\ linkLayer' = 0
    /\ ph' = NoPacketHeader
    /\ b' = <<>>
    /\ raw' = <<>>
    /\ n' = 0
    /\ err' = NilErr
    /\ packets' = 0
    /\ at' = ""
    /\ exit' = -1
    /\ anon' = NewDefaultAnonymizer(anon.macOUI, anon.macNIC, anon.ipv4,
                                    anon.ipv6, anon.key)
    /\ first' = [at |-> at, packets |-> packets, stdin |-> stdin]
    /\ UNCHANGED <<truncate, log>>

----------------------------------------------------------------------------
(* Inputs: frames, captures and settings.                                  *)

\* all sequences over S of length at most k
RECURSIVE SeqsUpTo(_, _)
SeqsUpTo(S, k) ==
    IF k = 0 THEN {<<>>}
    ELSE LET T == SeqsUpTo(S, k - 1)
         IN  T \cup {Append(t, x) : t \in {u \in T : Len(u) = k - 1}, x \in S}

Zeros(k) == [i \in 1..k |-> 0]

Mac0 == <<0, 17, 34, 51, 68, 85>>
Mac1 == <<2, 17, 34, 0, 0, 1>>
MacBroadcast == <<255, 255, 255, 255, 255, 255>>
MacZero == <<0, 0, 0, 0, 0, 0>>
Ip1 == <<10, 0, 0, 1>>
Ip2 == <<10, 0, 0, 2>>
Ip6a == <<254, 128>> \o Zeros(13) \o <<1>>
Ip6b == <<254, 128>> \o Zeros(13) \o <<2>>
VlanTag == <<129, 0, 0, 5>>

\* an Ethernet frame: the addresses, a VLAN tag or nothing, the EtherType
\* and what follows
EthFrame(dst, src, tag, etype, body) ==
    dst \o src \o tag \o << etype \div 256, etype % 256 >> \o body

\* an IPv4 header of ihl words
Ipv4Header(ihl, src, dst) ==
    << 64 + ihl, 0, 0, 4 * ihl, 0, 0, 0, 0, 64, 17, 0, 0 >> \o src \o dst
    \o [i \in 1..(4 * (ihl - 5)) |-> 1]

Ipv6Header(src, dst) == << 96, 0, 0, 0, 0, 0, 17, 64 >> \o src \o dst

\* an ARP request
ArpBody(sha, spa, tha, tpa) ==
    << 0, 1, 8, 0, 6, 4, 0, 1 >> \o sha \o spa \o tha \o tpa

\* a radiotap header declaring hlen bytes, and of max(hlen, 8) bytes, then
\* frame control, flags, duration and what follows
RadioFrame(hlen, fc, flags, rest) ==
    << 0, 0, hlen % 256, hlen \div 256, 0, 0, 0, 0 >>
    \o [i \in 1..(hlen - 8) |-> 0] \o << fc, flags, 0, 0 >> \o rest

\* frame control of a type and a subtype
Fc(typ, styp) == (styp * 16) + (typ * 4)

\* k addresses, a sequence control, and some frame body
Addrs(k) ==
    [i \in 1..(6 * k) |-> IF i % 6 = 0 THEN 16 + (i \div 6) ELSE i % 6]

Payload2 == <<222, 173>>

\* the Ethernet payloads of the pipeline's captures: IPv4 to a unicast and
\* to the broadcast address, IPv4 behind a VLAN tag, an ARP probe, IPv6,
\* and a payload that ends inside the Ethernet header
EthFrames ==
    { EthFrame(Mac0, Mac1, <<>>, ipv4EtherType, Ipv4Header(5, Ip1, Ip2) \o Payload2),
      EthFrame(MacBroadcast, Mac1, <<>>, ipv4EtherType, Ipv4Header(5, Ip1, Ip2) \o Payload2),
      EthFrame(Mac0, Mac1, VlanTag, ipv4EtherType, Ipv4Header(5, Ip1, Ip2) \o Payload2),
      EthFrame(MacBroadcast, Mac0, <<>>, arpEtherType, ArpBody(Mac0, Ip1, MacZero, Ip2)),
      EthFrame(Mac1, Mac0, <<>>, ipv6EtherType, Ipv6Header(Ip6a, Ip6b) \o Payload2),
      Mac0 \o Mac1 }

\* the radiotap + 802.11 payloads of the pipeline's captures: QoS data with
\* four addresses, an ACK, data cut inside its addresses, a payload that
\* ends with the radiotap header, and one shorter than that header says
RadioFrames ==
    { RadioFrame(8, Fc(typeData, 8), 3, Addrs(3) \o <<0, 0>> \o Addrs(1) \o <<0, 0>> \o Payload2),
      RadioFrame(10, Fc(typeControl, cfACK), 0, Addrs(1) \o Payload2),
      RadioFrame(8, Fc(typeData, 0), 1, Addrs(2)),
      SubSeq(RadioFrame(8, Fc(typeData, 0), 1, <<>>), 1, 8),
      SubSeq(RadioFrame(12, Fc(typeData, 0), 1, <<>>), 1, 8) }

\* a record of a capture: its header, declaring caplen bytes, and the
\* bytes that follow it
Record(ord, caplen, body) ==
    Encode(ord, <<0, 0, 0, 1>>) \o Encode(ord, <<0, 0, 0, 2>>)
    \o Encode(ord, caplen) \o Encode(ord, U32(Len(body) + 4)) \o body

\* the records of the pipeline's captures: each frame whole, one record
\* declaring more than MaxPacketLen, and one cut short by the end of input
Records(ord, frames) ==
    { Record(ord, U32(Len(f)), f) : f \in frames }
    \cup { Record(ord, U32(MaxPacketLen + 1), Payload2),
           Record(ord, U32(8), Payload2) }

RECURSIVE Flatten(_)
Flatten(ss) == IF ss = <<>> THEN <<>> ELSE Head(ss) \o Flatten(Tail(ss))

\* magic and global header (version 2.4) of a capture
FileHeader(ord, link) ==
    Encode(ord, MagicBE) \o Encode(ord, <<0, 2>>) \o Encode(ord, <<0, 4>>)
    \o Encode(ord, <<0, 0, 0, 0>>) \o Encode(ord, <<0, 0, 0, 0>>)
    \o Encode(ord, <<0, 0, 255, 255>>) \o Encode(ord, <<0, 0, 0, link>>)

FramesOf(link) == IF link = 1 THEN EthFrames ELSE RadioFrames

\* the input streams of the pipeline
\* the captures of one byte order and link type
CapturesOf(ord, link) ==
    { FileHeader(ord, link) \o Flatten(rs) :
        rs \in SeqsUpTo(Records(ord, FramesOf(link)), MaxRecords) }

\* the input streams of the pipeline
Captures ==
    UNION { CapturesOf(ord, link) :
              ord \in {BigEndian, LittleEndian}, link \in HandlerTypes }
    \cup { <<>>, <<161, 178>>, <<1, 2, 3, 4>> \o Zeros(20),
           FileHeader(BigEndian, 105),
           SubSeq(FileHeader(LittleEndian, 1), 1, 10) }

\* method of MAC OUI, MAC NIC, IPv4 and IPv6
AllSettings == AnonMethod \X AnonMethod \X AnonMethod \X AnonMethod

\* the settings the pipeline is run with: the default, everything
\* encrypted, and everything left
RunSettings ==
    { <<Pseudonym, Pseudonym, Pseudonym, Pseudonym>>,
      <<Encrypt, Encrypt, Encrypt, Encrypt>>,
      <<Leave, Leave, Leave, Leave>> }

----------------------------------------------------------------------------
(* The pipeline's specification.                                           *)

\* no first run has ended yet
NoFirst == [at |-> "", packets |-> 0, stdin |-> <<>>]

\* main, up to the call of run
Start(cfg, key, tr, input) ==
    /\ stdin = input
    /\ rpos = 0
    /\ stdout = <<>>
    /\ order = BigEndian
    /\ linkLayer = 0
    /\ ph = NoPacketHeader
    /\ b = <<>>
    /\ raw = <<>>
    /\ n = 0
    /\ err = NilErr
    /\ packets = 0
    /\ at = ""
    /\ exit = -1
    /\ pass = 1
    /\ truncate = tr
    /\ anon = NewDefaultAnonymizer(cfg[1], cfg[2], cfg[3], cfg[4], key)
    /\ log = {}
    /\ first = NoFirst

Init ==
    /\ pc = "magic"
    /\ \E cfg \in RunSettings, key \in Keys, tr \in BOOLEAN, input \in Captures :
          Start(cfg, key, tr, input)

Next ==
    \/ ReadMagic
    \/ ReadGlobalHeader
    \/ ReadPacketHeader
    \/ ReadPacket
    \/ HandlePacket
    \/ WritePacket
    \/ Exit
    \/ Rerun

Spec == Init /\ [][Next]_vars

----------------------------------------------------------------------------
(* The handlers alone: Handle on one buffer.                               *)

Mac6 == <<6, 0, 0, 0, 0, 1>>

\* every prefix of a frame
Prefixes(f) == { SubSeq(f, 1, k) : k \in 0..Len(f) }

\* the buffers EthHandler.Handle is given
HandleEthFrames ==
    { EthFrame(dst, Mac1, tag, ipv4EtherType, Ipv4Header(ihl, Ip1, Ip2) \o pad) :
        dst \in {Mac0, Mac6, MacBroadcast}, tag \in {<<>>, VlanTag},
        ihl \in {5, 6}, pad \in {Payload2, Zeros(44)} }
    \cup
    { EthFrame(MacBroadcast, Mac0, tag, arpEtherType, ArpBody(sha, Ip1, tha, Ip2)) :
        tag \in {<<>>, VlanTag}, sha \in {Mac0, MacZero}, tha \in {MacZero, Mac1} }
    \cup
    { EthFrame(Mac1, Mac0, tag, et, Ipv6Header(Ip6a, Ip6b) \o Payload2) :
        tag \in {<<>>, VlanTag}, et \in {ipv6EtherType, 35020} }
    \cup Prefixes(EthFrame(Mac0, Mac1, <<>>, ipv4EtherType, Ipv4Header(6, Ip1, Ip2)))
    \cup Prefixes(EthFrame(Mac0, Mac1, VlanTag, ipv4EtherType, Ipv4Header(5, Ip1, Ip2)))
    \cup Prefixes(EthFrame(MacBroadcast, Mac0, <<>>, arpEtherType,
                           ArpBody(MacZero, Ip1, MacZero, Ip2)))
    \cup Prefixes(EthFrame(Mac1, Mac0, <<>>, ipv6EtherType, Ipv6Header(Ip6a, Ip6b)))

\* what follows the duration in the radiotap frames: four addresses and
\* ten more bytes
RadioRest == Addrs(4) \o Zeros(10)

\* the buffers Radiotap80211Handler.Handle is given
HandleRadioFrames ==
    { RadioFrame(hlen, Fc(typ, styp), flags, RadioRest) :
        hlen \in {8, 11}, typ \in 0..3, styp \in 0..15,
        flags \in {0, 1, 3, 128, 131} }
    \cup Prefixes(RadioFrame(8, Fc(typeData, 8), 131, RadioRest))
    \cup Prefixes(RadioFrame(9, Fc(typeControl, cfWrapper), 0, RadioRest))
    \cup Prefixes(RadioFrame(8, Fc(typeMgmt, 8), 128, RadioRest))
    \cup { RadioFrame(4, Fc(typeControl, cfRTS), 0, RadioRest),
           SubSeq(RadioFrame(40, Fc(typeData, 0), 0, <<>>), 1, 20) }

HandleFrames(link) == IF link = 1 THEN HandleEthFrames ELSE HandleRadioFrames

\* the settings the handlers are run with: every method of MAC OUI, MAC NIC
\* and IPv4, IPv6 anonymized as IPv4 is; an 802.11 header holds no IP
\* address
HandleSettings(link) ==
    { cfg \in AllSettings : cfg[4] = cfg[3] /\ (link = 127 => cfg[3] = Leave) }

\* run has read one packet of the link type and is about to call Handle
InitHandle ==
    /\ pc = "handle"
    /\ stdin = <<>>
    /\ rpos = 0
    /\ stdout = <<>>
    /\ order = BigEndian
    /\ ph = NoPacketHeader
    /\ n = 0
    /\ err = NilErr
    /\ packets = 0
    /\ at = ""
    /\ exit = -1
    /\ pass = 1
    /\ truncate = TRUE
    /\ log = {}
    /\ first = NoFirst
    /\ linkLayer \in HandlerTypes
    /\ b \in HandleFrames(linkLayer)
    /\ raw = b
    /\ \E cfg \in HandleSettings(linkLayer), key \in Keys :
          anon = NewDefaultAnonymizer(cfg[1], cfg[2], cfg[3], cfg[4], key)

SpecHandle == InitHandle /\ [][HandlePacket]_vars

----------------------------------------------------------------------------
(* The anonymizer alone: any sequence of calls of MAC, IPv4 and IPv6.      *)

\* the addresses the calls are made with
AnonMACs == { <<53, 23, 21, 0, 0, 1>>, <<0, 0, 0, 0, 0, 2>>, Mac0 }
AnonIPv4s == { Ip1, Ip2 }
AnonIPv6s == { Ip6a }

\* the number of calls made so far
Calls(a) == a.nmac + a.nipv4 + a.nipv6

\* the settings of the calls: IPv6 as IPv4
AnonSettings == {cfg \in AllSettings : cfg[4] = cfg[3]}

InitAnon ==
    /\ pc = "calls"
    /\ \E cfg \in AnonSettings, key \in Keys : Start(cfg, key, TRUE, <<>>)

\* a call on the bytes s, r being what it gave
Call(s, r) ==
    /\ pc = "calls"
    /\ Calls(anon) < MaxCalls
    /\ raw' = s
    /\ b' = r.s
    /\ anon' = r.a
    /\ log' = log \cup Logged(pass, Calls(anon), r.fs)
    /\ UNCHANGED <<stdin, rpos, stdout, pc, order, linkLayer, ph, n, err,
                   packets, at, exit, pass, truncate, first>>

CallMAC == \E s \in AnonMACs : Call(s, MAC(anon, s))
CallIPv4 == \E s \in AnonIPv4s : Call(s, IPv4(anon, s))
CallIPv6 == \E s \in AnonIPv6s : Call(s, IPv6(anon, s))

NextAnon == CallMAC \/ CallIPv4 \/ CallIPv6

SpecAnon == InitAnon /\ [][NextAnon]_vars

----------------------------------------------------------------------------
(* Properties of the anonymizer.                                           *)

\* the pseudonym map of a class
MapOf(a, class) ==
    CASE class = "oui"  -> a.ouiMap
      [] class = "nic"  -> a.nicMap
      [] class = "ipv4" -> a.ipv4Map
      [] class = "ipv6" -> a.ipv6Map

XorSeq(x, y) == [i \in 1..Len(x) |-> Xor8(x[i], y[i])]

\* C1: under Pseudonym, any two fields of a class with the same original
\* value got the same anonymized value, whatever was anonymized in between,
\* and the map still holds every pair it ever gave out: none was changed or
\* removed.
C1_PseudonymStable ==
    \A p \in log :
        MethodOf(anon, p.class) = Pseudonym =>
            /\ p.orig \in DOMAIN MapOf(anon, p.class)
            /\ MapOf(anon, p.class)[p.orig] = p.out
            /\ \A q \in log :
                  (q.class = p.class /\ q.orig = p.orig) => q.out = p.out

\* C1's case: a value met again after another field of the same class was
\* anonymized in between, and its pseudonym differs from it
C1_Witness ==
    \E p, q, r \in log :
        /\ MethodOf(anon, p.class) = Pseudonym
        /\ q.class = p.class /\ r.class = p.class
        /\ p.rec < r.rec /\ r.rec < q.rec
        /\ q.orig = p.orig /\ r.orig # p.orig
        /\ p.out # p.orig

Changing(a, class) == MethodOf(a, class) \in {Pseudonym, Encrypt}

\* C2 as stated: under Pseudonym or Encrypt, distinct original values of a
\* class get distinct anonymized values, of the length of the field.
C2_DistinctAsClaimed ==
    \A p, q \in log :
        (p.class = q.class /\ Changing(anon, p.class) /\ p.orig # q.orig) =>
            /\ p.out # q.out
            /\ Len(p.out) = Len(p.orig)

\* the keystream segment a logged field was XORed with: the one at the
\* cursor of its own call, or, for a pseudonym taken from the map, at the
\* cursor of the call that stored it
SegmentOf(p) ==
    LET f == IF p.kat >= 0 THEN p
             ELSE CHOOSE x \in log :
                     x.class = p.class /\ x.orig = p.orig /\ x.kat >= 0
    IN  KeyStream(anon.key, f.kat, Len(p.orig))

\* C2, amended: under Pseudonym or Encrypt every output has the length of
\* its input and is the original XOR the keystream segment at the cursor
\* where the value was (under Pseudonym: first) anonymized; so two distinct
\* originals of a class get distinct outputs exactly when the XOR of the
\* originals differs from the XOR of their two segments.
C2_XorOfSegment ==
    \A p \in log :
        Changing(anon, p.class) =>
            /\ Len(p.out) = Len(p.orig)
            /\ p.out = XorSeq(p.orig, SegmentOf(p))
            /\ \A q \in log :
                  (q.class = p.class /\ q.orig # p.orig) =>
                      (p.out # q.out <=>
                          XorSeq(p.orig, q.orig) # XorSeq(SegmentOf(p), SegmentOf(q)))

\* C2's case: two fields of a class with distinct originals, anonymized to
\* distinct values, one of them a pseudonym taken from the map
C2_Witness ==
    \E p, q \in log :
        /\ p.class = q.class /\ Changing(anon, p.class)
        /\ p.orig # q.orig /\ p.out # q.out
        /\ p.out # p.orig /\ q.out # q.orig
        /\ \E r \in log : r.class = p.class /\ r.orig = p.orig /\ r.kat = -1

----------------------------------------------------------------------------
(* Properties of the handlers.  In a state with pc = "write" Handle has    *)
(* returned no error: raw is the buffer it was given, b the buffer it      *)
(* left and n its boundary.  With at = "handle" it returned err.           *)

Handled_Ok == pc = "write"
Handled_Err == at = "handle"

\* the offset of the EtherType of an Ethernet frame: 12, or 16 behind a tag
TypeOffset(f) == IF Len(f) >= 14 /\ U16(f[13], f[14]) = 33024 THEN 16 ELSE 12

\* the EtherType of a frame that holds one
EtherTypeOf(f) == U16(f[TypeOffset(f) + 1], f[TypeOffset(f) + 2])

HasEtherType(f) == Len(f) >= 14 /\ Len(f) >= TypeOffset(f) + 2

\* an untagged Ethernet frame with EtherType IPv4 whose payload holds the
\* whole IPv4 header, options included
UntaggedIpv4(f) ==
    /\ Len(f) >= 34
    /\ U16(f[13], f[14]) = 2048
    /\ f[15] % 16 >= 5
    /\ Len(f) >= 14 + (4 * (f[15] % 16))

\* C4 as stated: for an untagged Ethernet frame with EtherType IPv4 and a
\* payload long enough for its header, Handle returns the boundary
\* 14 + 20 = 34 when IHL is 5 and 34 + (IHL-5)*4 when IHL > 5, whatever the
\* MAC bytes and the methods.
C4_Ipv4Boundary ==
    (linkLayer = 1 /\ (Handled_Ok \/ Handled_Err) /\ UntaggedIpv4(raw)) =>
        /\ Handled_Ok
        /\ n = 34 + (((raw[15] % 16) - 5) * 4)

\* the offset of the i-th (0, 1) hardware address of an ARP frame
ArpMacOffset(f, i) == TypeOffset(f) + 2 + 8 + (10 * i)

IsArp(f) == HasEtherType(f) /\ EtherTypeOf(f) = 2054

\* what a method makes of the bytes orig with the cipher at cursor kat
Anonymized(a, class, orig, out, kat) ==
    CASE MethodOf(a, class) = Leave -> out = orig /\ kat = -1
      [] MethodOf(a, class) = Encrypt ->
            kat >= 0 /\ out = XorSeq(orig, KeyStream(a.key, kat, Len(orig)))
      [] MethodOf(a, class) = Pseudonym ->
            /\ orig \in DOMAIN MapOf(a, class)
            /\ MapOf(a, class)[orig] = out

\* C5: in an ARP frame, a sender or target hardware address of six zero
\* bytes is left as it is and is not handed to the anonymizer, under every
\* method, and the IPv4 address that follows it, when the buffer holds it,
\* is anonymized by the configured method.
C5_ZeroArpMac ==
    (linkLayer = 1 /\ (Handled_Ok \/ Handled_Err) /\ IsArp(raw)) =>
        \A i \in {0, 1} :
            LET off == ArpMacOffset(raw, i) IN
            (Len(raw) >= off + 6 /\ Slice(raw, off, off + 6) = <<0, 0, 0, 0, 0, 0>>) =>
                /\ Slice(b, off, off + 6) = <<0, 0, 0, 0, 0, 0>>
                /\ ~ \E e \in log : e.off \in off..(off + 5)
                /\ Len(raw) >= off + 10 =>
                      \E e \in log :
                          /\ e.off = off + 6 /\ e.class = "ipv4"
                          /\ e.orig = Slice(raw, off + 6, off + 10)
                          /\ e.out = Slice(b, off + 6, off + 10)
                          /\ Anonymized(anon, "ipv4", e.orig, e.out, e.kat)

\* C5's case: an ARP probe whose zero target address was passed over while
\* MAC addresses are encrypted, and whose target IPv4 address was changed
C5_Witness ==
    /\ linkLayer = 1 /\ Handled_Ok /\ IsArp(raw)
    /\ anon.macOUI = Encrypt /\ anon.macNIC = Encrypt
    /\ Slice(raw, 32, 38) = <<0, 0, 0, 0, 0, 0>>
    /\ Slice(raw, 22, 28) # <<0, 0, 0, 0, 0, 0>>
    /\ Slice(b, 32, 38) = <<0, 0, 0, 0, 0, 0>>
    /\ Slice(b, 38, 42) # Slice(raw, 38, 42)
    /\ n = 42

\* the fields of an 802.11 frame behind a radiotap header of hlen bytes
RadioType(f, hlen) == (f[hlen + 1] \div 4) % 4
RadioSubtype(f, hlen) == (f[hlen + 1] \div 16) % 16
RadioToDS(f, hlen) == f[hlen + 2] % 2 = 1
RadioFromDS(f, hlen) == (f[hlen + 2] \div 2) % 2 = 1
RadioOrder(f, hlen) == f[hlen + 2] >= 128

\* the number of addresses of a control frame, as the claim lists them
ClaimedControlAddrs ==
    [x \in 7..15 |-> IF x \in {8, 9, 11, 15} THEN 2 ELSE 1]

\* the boundary the claim gives for a frame of a known type and subtype
ClaimedBoundary(f, hlen) ==
    LET typ  == RadioType(f, hlen)
        styp == RadioSubtype(f, hlen)
        qos  == typ = 2 /\ styp >= 8
        wrap == typ = 1 /\ styp = 7
    IN  hlen + 4
        + (6 * (CASE typ = 0 -> 3
                  [] typ = 2 -> IF RadioToDS(f, hlen) /\ RadioFromDS(f, hlen)
                                THEN 4 ELSE 3
                  [] typ = 1 -> ClaimedControlAddrs[styp]))
        + (IF typ # 1 THEN 2 ELSE 0)
        + (IF qos THEN 2 ELSE 0)
        + (IF wrap THEN 2 ELSE 0)
        + (IF wrap \/ (qos /\ RadioOrder(f, hlen)) \/ (typ = 0 /\ RadioOrder(f, hlen))
           THEN 4 ELSE 0)

\* the header length a radiotap frame declares
RadioLen(f) == U16(f[4], f[3])

\* a frame of a type and subtype Handle knows
KnownRadio(f) ==
    /\ Len(f) >= 8
    /\ Len(f) >= RadioLen(f) + 2
    /\ \/ RadioType(f, RadioLen(f)) \in {0, 2}
       \/ RadioType(f, RadioLen(f)) = 1 /\ RadioSubtype(f, RadioLen(f)) \in 7..15

\* C6: for a radiotap + 802.11 frame of a known type, long enough for the
\* boundary, Handle returns the declared header length + 4 + 6 per address
\* + 2 (sequence control, unless Control) + 2 (QoS data) + 2 (Control
\* Wrapper) + 4 (HT control); radiotapHeaderLength + 32 for a Data frame
\* with toDS, fromDS, a QoS subtype and no order bit.
C6_RadioBoundary ==
    (linkLayer = 127 /\ (Handled_Ok \/ Handled_Err) /\ KnownRadio(raw)
       /\ Len(raw) >= ClaimedBoundary(raw, RadioLen(raw))) =>
        /\ Handled_Ok
        /\ n = ClaimedBoundary(raw, RadioLen(raw))
        /\ (/\ RadioType(raw, RadioLen(raw)) = 2
            /\ RadioSubtype(raw, RadioLen(raw)) >= 8
            /\ raw[RadioLen(raw) + 2] = 3) => n = RadioLen(raw) + 32

\* C6's case: a QoS Data frame with toDS and fromDS and no order bit, behind
\* a radiotap header of 11 bytes
C6_Witness ==
    /\ linkLayer = 127 /\ Handled_Ok
    /\ RadioLen(raw) = 11
    /\ RadioType(raw, 11) = 2 /\ RadioSubtype(raw, 11) = 8
    /\ raw[13] = 3
    /\ n = 43

----------------------------------------------------------------------------
(* Properties of the pipeline.                                             *)

\* the 32-bit field at offset off of a stream, most significant byte first
Msb(s, off, le) ==
    IF le THEN << s[off + 4], s[off + 3], s[off + 2], s[off + 1] >>
    ELSE << s[off + 1], s[off + 2], s[off + 3], s[off + 4] >>

\* the bytes of a small number, most significant first
Bytes4(k) == << 0, k \div 65536, (k \div 256) % 256, k % 256 >>

IsLE(s) == Len(s) >= 4 /\ SubSeq(s, 1, 4) = << 212, 195, 178, 161 >>
IsBE(s) == Len(s) >= 4 /\ SubSeq(s, 1, 4) = << 161, 178, 195, 212 >>

\* Handle came to need more bytes than the payload holds: a read of the
\* link-layer header ran into the end of the payload, a later read asked
\* for x bytes at pos beyond it, or a slice went past it
NeededMore ==
    /\ at = "handle"
    /\ err.kind \in {"EOF", "ErrUnexpectedEOF", "short", "panic_slice"}

\* C3 as stated: whenever a handler needs more bytes than the payload
\* holds, at any read, Handle returns the short-packet error with the
\* offset and the count needed, and the run ends as a failure (status 1):
\* it does not panic and is not reported as a normal end of stream.
C3_ShortIsFailure ==
    (pc = "exited" /\ NeededMore) =>
        /\ err.kind = "short"
        /\ err.pos <= Len(raw) /\ err.pos + err.x > Len(raw)
        /\ exit = 1

\* the record header about to be read declares more than MaxPacketLen
DeclaredTooLong ==
    /\ pc = "header"
    /\ Len(stdin) >= rpos + 16
    /\ LET v == Msb(stdin, rpos + 8, order = LittleEndian)
       IN  v[1] > 0 \/ (v[2] * 65536) + (v[3] * 256) + v[4] > 262144

SizeLimitError == err.kind = "max packet len exceeded"

\* C7: a record header declaring more than MaxPacketLen makes the run
\* return the size-limit error on reading that header: exactly the 16
\* bytes of the header are consumed, no buffer is made, nothing is written;
\* main then exits with status 1 and nothing is read or written after.
C7_SizeLimit ==
    [][ /\ DeclaredTooLong =>
              /\ pc' = "return" /\ err'.kind = "max packet len exceeded"
              /\ rpos' = rpos + 16 /\ b' = b /\ raw' = raw
              /\ stdout' = stdout /\ packets' = packets
        /\ (pc = "return" /\ SizeLimitError) =>
              /\ pc' = "exited" /\ exit' = 1
              /\ rpos' = rpos /\ b' = b /\ stdout' = stdout
        /\ (pc = "exited" /\ SizeLimitError) => UNCHANGED vars
      ]_vars

\* a run that wrote one record and failed on the header of the next
C7_Witness ==
    /\ pc = "exited" /\ SizeLimitError /\ exit = 1
    /\ packets = 1 /\ Len(stdout) > 40
    /\ rpos < Len(stdin)

AllLeave ==
    /\ anon.macOUI = Leave /\ anon.macNIC = Leave
    /\ anon.ipv4 = Leave /\ anon.ipv6 = Leave

\* a capture of one record, of link type Ethernet, in one of the two byte
\* orders, whose payload is an untagged IPv4 frame
OneEthIpv4Record(s) ==
    /\ Len(s) >= 40 + 34
    /\ IsLE(s) \/ IsBE(s)
    /\ Msb(s, 20, IsLE(s)) = << 0, 0, 0, 1 >>
    /\ Msb(s, 32, IsLE(s)) = Bytes4(Len(s) - 40)
    /\ UntaggedIpv4(SubSeq(s, 41, Len(s)))

\* C8 as stated: a one-record Ethernet/IPv4 capture, in either byte order,
\* run with the four classes on Leave and without truncation, gives an
\* output stream equal to the input stream, byte for byte.
C8_LeaveIsIdentity ==
    (pass = 1 /\ pc = "exited" /\ AllLeave /\ ~truncate
        /\ OneEthIpv4Record(stdin)) => stdout = stdin

\* C9: the step that writes a record appends a 16-byte header and k
\* payload bytes, the header's captured length being k; with truncation, k
\* is the handler's boundary n, n is at most the length of the payload
\* read, and the bytes written are the first n of the handled buffer.  No
\* other step of a run writes a record.
C9_WrittenLength ==
    [][ /\ pc = "write" =>
              LET old == Len(stdout)
                  k   == Len(stdout') - old - 16
              IN  /\ k >= 0
                  /\ SubSeq(stdout', 1, old) = stdout
                  /\ Msb(stdout', old + 8, order = LittleEndian) = Bytes4(k)
                  /\ SubSeq(stdout', old + 17, old + 16 + k) = SubSeq(b, 1, k)
                  /\ truncate => (k = n /\ n <= Len(raw))
                  /\ ~truncate => k = Len(raw)
        /\ pc \in {"header", "packet", "handle", "return"} =>
              stdout' = stdout
      ]_vars

\* a record was written cut at a boundary inside its payload
C9_Witness ==
    /\ truncate /\ pc = "header" /\ packets >= 1
    /\ n < Len(raw) /\ Len(b) = n
    /\ Len(stdout) >= 40 + n

\* C10 as stated (README): a second run, with the same key and settings,
\* over the output of a first run that read its capture to the end,
\* ends without error and gives every address field of the first run its
\* original value back.
C10_SecondRunRestores ==
    (pass = 2 /\ pc = "exited" /\ first.at = "header") =>
        /\ exit = 0
        /\ \A e \in log :
              e.pass = 1 =>
                  \E f \in log :
                      /\ f.pass = 2 /\ f.rec = e.rec /\ f.off = e.off
                      /\ f.class = e.class
                      /\ f.orig = e.out /\ f.out = e.orig

----------------------------------------------------------------------------
(* The effect of the Ethernet handler on the bytes of a frame.             *)

\* the offsets (from 0) of the bytes of a frame that belong to an address
\* field: the two MAC addresses and, behind the EtherType, the ARP sender
\* and target MAC and IPv4, or the IPv4 / IPv6 source and destination
AddressOffsets(f) ==
    (0..11) \cup
    (IF ~HasEtherType(f) THEN {}
     ELSE LET p == TypeOffset(f) + 2 IN
          CASE EtherTypeOf(f) = 2054  -> (p + 8)..(p + 27)
            [] EtherTypeOf(f) = 2048  -> (p + 12)..(p + 19)
            [] EtherTypeOf(f) = 34525 -> (p + 8)..(p + 39)
            [] OTHER -> {})

\* C11 as stated: EthHandler.Handle leaves the buffer at its length and
\* changes only bytes of address fields; every other byte (the VLAN tag
\* with its 0x8100 type and TCI, the EtherType, the opaque header bytes)
\* is as in the input, for tagged and untagged frames alike.
C11_OnlyAddressBytes ==
    (linkLayer = 1 /\ (Handled_Ok \/ Handled_Err)) =>
        /\ Len(b) = Len(raw)
        /\ \A i \in 1..Len(raw) :
              (i - 1) \notin AddressOffsets(raw) => b[i] = raw[i]

=============================================================================
